---- MODULE Spec2Model ----
(***************************************************************************)
(* A model of src/perceptron/neo4j_perceptron.py: the perception store     *)
(* (PerceptionStore), the trainer (PerceptionTrainer) and the demo         *)
(* harness (main).                                                         *)
(*                                                                         *)
(* The Neo4j graph is modelled as the sequence `nodes` of Perception nodes *)
(* in creation order (a node's position is its identity, since the code    *)
(* declares no uniqueness constraint on bundle_id) and the sequence `rels` *)
(* of RELATES edges in creation order.                                     *)
(*                                                                         *)
(* A decimal literal of the program is written in hundredths (0.8 is 80)  *)
(* and denotes the double nearest to it; the similarity is computed in    *)
(* IEEE-754 double arithmetic, as the database computes it.               *)
(***************************************************************************)
EXTENDS Integers, Sequences, FiniteSets

VARIABLES
    nodes,          \* the (:Perception) nodes, in creation order
    rels,           \* the [:RELATES] edges, in creation order
    call,           \* the most recent call of a PerceptionStore / trainer method
    rows,           \* the rows the most recent activate_perceptions query returned
    raised,         \* the exception the most recent call raised, or "none"
    pc,             \* main: the statement main() is at
    training_data,  \* main: the list given to trainer.train
    test_queries,   \* main: the list given to trainer.test
    idx,            \* train / test: the loop index (items handled so far)
    results,        \* test: the list `results` of per-query accuracies
    activated,      \* test: the list returned by each activate_perceptions call
    avg_accuracy,   \* test: the returned mean, as <<sum(results), len(results)>>
    closed          \* how many times store.close() has run

vars == <<nodes, rels, call, rows, raised, pc, training_data, test_queries,
          idx, results, activated, avg_accuracy, closed>>

storeVars == <<nodes, rels, call, rows, raised>>
mainVars == <<pc, training_data, test_queries, idx, results, activated,
              avg_accuracy, closed>>

----------------------------------------------------------------------------
(* Program constants *)

\* LIMIT 5
Limit == 5

\* confidence: 0.5, in hundredths
Confidence == 50

(* Bounds of the model *)

\* Spec: the most nodes the graph holds
MaxNodes == 3

\* Spec: queries are issued while the graph has counted fewer activations
MaxActivations == 2

\* SpecRank: the most nodes the graph holds
MaxRankNodes == 6

\* SpecRank: queries are issued while every activation_count is below this
MaxRankQueries == 1

----------------------------------------------------------------------------
(* The inputs the specifications draw from *)

\* Spec
Ids == {"a", "b"}

\* 0.8,0.6 (squared norm 1.0); 0.2,0.4 (small magnitude); 0.9 (one component)
Embeddings == {<<80, 60>>, <<20, 40>>, <<90>>}

\* the stored embeddings and 0.9,0.8, whose dot product with 0.2,0.4 is
\* 0.5 in decimal arithmetic and 0.5000000000000001 in double arithmetic
Queries == Embeddings \cup {<<90, 80>>}

RelationLists == {<<>>, <<[target |-> "a", weight |-> 90]>>}

\* SpecRank
RankIds == <<"p1", "p2", "p3", "p4", "p5", "p6", "p7", "p8">>

\* the embeddings a batch is drawn from, in the order a batch stores them
RankEmbeddings ==
    <<<<100, 0>>, <<0, 100>>, <<60, 60>>, <<30, 90>>,
      <<90, 30>>, <<50, 50>>, <<80, 40>>, <<20, 40>>>>

\* 0.9,0.6 (all but 0.2,0.4 exceed 0.5; 1.0,0.0 and 0.6,0.6 are both at 0.9),
\* 0.6,0.2 (three exceed 0.5), 0.5,0.5 (three are at 0.5 exactly, three at
\* 0.6) and 0.9,0.8 (all exceed 0.5: 0.2,0.4 is at 0.18000000000000002 +
\* 0.32000000000000006 = 0.5000000000000001)
RankQueries == {<<90, 60>>, <<60, 20>>, <<50, 50>>, <<90, 80>>}

\* create_synthetic_data()
create_synthetic_data ==
    <<[id |-> "visual_cat", embedding |-> <<80, 20, 90>>,
       relations |-> <<[target |-> "visual_animal", weight |-> 90]>>],
      [id |-> "visual_dog", embedding |-> <<70, 30, 80>>,
       relations |-> <<[target |-> "visual_animal", weight |-> 80]>>],
      [id |-> "visual_animal", embedding |-> <<60, 40, 70>>,
       relations |-> <<>>]>>

\* create_test_queries()
create_test_queries ==
    <<[name |-> "cat_query", embedding |-> <<75, 25, 85>>,
       expected |-> <<"visual_cat">>],
      [name |-> "dog_query", embedding |-> <<65, 35, 75>>,
       expected |-> <<"visual_dog">>],
      [name |-> "animal_query", embedding |-> <<55, 45, 65>>,
       expected |-> <<"visual_animal">>]>>

\* what the database holds when main() starts
OldGraphs ==
    {<<>>,
     <<[bundle_id |-> "visual_cat", embedding |-> <<80, 20, 90>>,
        activation_count |-> 3, confidence |-> Confidence]>>}

TrainingBatches ==
    {create_synthetic_data,
     <<>>,
     <<[id |-> "visual_animal", embedding |-> <<60, 40, 70>>, relations |-> <<>>],
       [id |-> "visual_cat", embedding |-> <<80, 20, 90>>,
        relations |-> <<[target |-> "visual_animal", weight |-> 90],
                        [target |-> "visual_cat", weight |-> 10]>>]>>}

QueryLists ==
    {create_test_queries,
     <<>>,
     <<[name |-> "faint_query", embedding |-> <<10, 10, 10>>,
        expected |-> <<"visual_cat">>],
       [name |-> "pet_query", embedding |-> <<75, 25, 85>>,
        expected |-> <<"visual_dog", "visual_cat">>],
       [name |-> "dog_query", embedding |-> <<65, 35, 75>>,
        expected |-> <<"visual_dog">>]>>}

\* every embedding and query vector above
Vectors ==
    Queries
    \cup {RankEmbeddings[j] : j \in 1..Len(RankEmbeddings)} \cup RankQueries
    \cup UNION {{g[p].embedding : p \in 1..Len(g)} : g \in OldGraphs}
    \cup UNION {{b[k].embedding : k \in 1..Len(b)} : b \in TrainingBatches}
    \cup UNION {{l[k].embedding : k \in 1..Len(l)} : l \in QueryLists}

----------------------------------------------------------------------------
(* IEEE-754 double arithmetic, as Python and Cypher (the JVM) compute it.  *)
(* A natural number is the sequence of its digits in base 2^14, lowest     *)
(* first, without leading zero digits (zero is <<>>).  A double is         *)
(* [m |-> mantissa, e |-> exponent] with value m * 2^e and                 *)
(* 2^52 <= m < 2^53, or FZero.  Only zero and positive normal doubles      *)
(* occur: embeddings, weights and queries are non-negative decimals.       *)

\* 2^0 .. 2^14
Pow2Table ==
    <<1, 2, 4, 8, 16, 32, 64, 128, 256, 512, 1024, 2048, 4096, 8192, 16384>>

\* the bits of a digit
LimbBits == Len(Pow2Table) - 1

Pow2(r) == Pow2Table[r + 1]

Base == Pow2(LimbBits)

\* the bits of a double's mantissa
MantissaBits == 53

\* the digit of weight Base^i (i from 0)
Limb(N, i) == IF i >= 0 /\ i < Len(N) THEN N[i + 1] ELSE 0

\* N without leading zero digits
Trim(N) ==
    LET nz == {i \in 1..Len(N) : N[i] # 0}
    IN  IF nz = {} THEN <<>>
        ELSE SubSeq(N, 1, CHOOSE i \in nz : \A j \in nz : j <= i)

\* the number of bits of N
BitLen(N) ==
    IF N = <<>> THEN 0
    ELSE LimbBits * (Len(N) - 1)
            + (CHOOSE r \in 1..LimbBits :
                    Pow2(r - 1) <= N[Len(N)] /\ N[Len(N)] < Pow2(r))

\* the digits of the number whose columns (lowest first) are cols, from
\* column i on, with the carry into it
RECURSIVE Carry(_, _, _)
Carry(cols, i, carry) ==
    IF i > Len(cols)
    THEN IF carry = 0 THEN <<>> ELSE <<carry>>
    ELSE <<(cols[i] + carry) % Base>>
            \o Carry(cols, i + 1, (cols[i] + carry) \div Base)

\* the column sum of a * b of weight Base^k, from digit i of a on
RECURSIVE MulColumn(_, _, _, _)
MulColumn(a, b, k, i) ==
    IF i >= Len(a) THEN 0
    ELSE Limb(a, i) * Limb(b, k - i) + MulColumn(a, b, k, i + 1)

MulBig(a, b) ==
    Trim(Carry([k \in 1..(Len(a) + Len(b)) |-> MulColumn(a, b, k - 1, 0)], 1, 0))

AddBig(a, b) ==
    LET n == IF Len(a) > Len(b) THEN Len(a) ELSE Len(b)
    IN  Trim(Carry([k \in 1..n |-> Limb(a, k - 1) + Limb(b, k - 1)], 1, 0))

\* N * 2^s
ShlBig(N, s) ==
    LET q == s \div LimbBits
        r == s % LimbBits
    IN  IF N = <<>> THEN <<>>
        ELSE [k \in 1..q |-> 0]
                \o Trim(Carry([k \in 1..Len(N) |-> N[k] * Pow2(r)], 1, 0))

\* N \div 2^s
ShrBig(N, s) ==
    LET q == s \div LimbBits
        r == s % LimbBits
    IN  Trim([k \in 1..(Len(N) - q) |->
                (Limb(N, k - 1 + q) \div Pow2(r))
                    + (Limb(N, k + q) % Pow2(r)) * Pow2(LimbBits - r)])

\* bit i of N (i from 0)
BitAt(N, i) == (Limb(N, i \div LimbBits) \div Pow2(i % LimbBits)) % 2

\* whether N % 2^s = 0
LowBitsZero(N, s) ==
    /\ \A k \in 0..((s \div LimbBits) - 1) : Limb(N, k) = 0
    /\ Limb(N, s \div LimbBits) % Pow2(s % LimbBits) = 0

\* whether a > b
GreaterBig(a, b) ==
    \/ Len(a) > Len(b)
    \/ /\ Len(a) = Len(b)
       /\ \E i \in 1..Len(a) :
            a[i] > b[i] /\ \A j \in (i + 1)..Len(a) : a[j] = b[j]

\* the quotient digits and the remainder of N \div d for a small d, from
\* the highest digit down to digit i, as <<digits (lowest first), remainder>>
RECURSIVE DivSmall(_, _, _)
DivSmall(N, d, i) ==
    IF i > Len(N) THEN <<<<>>, 0>>
    ELSE LET up  == DivSmall(N, d, i + 1)
             cur == up[2] * Base + N[i]
         IN  <<<<cur \div d>> \o up[1], cur % d>>

FZero == [m |-> <<>>, e |-> 0]

\* the double nearest to N * 2^e, or to a value strictly between N * 2^e and
\* (N + 1) * 2^e when inexact; ties go to the even mantissa
RoundToDouble(N, e, inexact) ==
    LET L == BitLen(N)
        s == L - MantissaBits
    IN  IF N = <<>> THEN FZero
        ELSE IF s <= 0 THEN [m |-> ShlBig(N, 0 - s), e |-> e + s]
        ELSE LET q    == ShrBig(N, s)
                 half == BitAt(N, s - 1) = 1
                 rest == ~LowBitsZero(N, s - 1) \/ inexact
                 up   == half /\ (rest \/ BitAt(q, 0) = 1)
                 m    == IF up THEN AddBig(q, <<1>>) ELSE q
             IN  IF BitLen(m) > MantissaBits
                 THEN [m |-> ShrBig(m, 1), e |-> e + s + 1]
                 ELSE [m |-> m, e |-> e + s]

\* x * y in double arithmetic
FMul(u, v) ==
    IF u = FZero \/ v = FZero THEN FZero
    ELSE RoundToDouble(MulBig(u.m, v.m), u.e + v.e, FALSE)

\* x + y in double arithmetic
FAdd(u, v) ==
    IF u = FZero THEN v
    ELSE IF v = FZero THEN u
    ELSE LET hi == IF u.e >= v.e THEN u ELSE v
             lo == IF u.e >= v.e THEN v ELSE u
             d  == hi.e - lo.e
         IN  IF d > MantissaBits THEN hi
             ELSE RoundToDouble(AddBig(ShlBig(hi.m, d), lo.m), lo.e, FALSE)

\* x > y for doubles
FGreater(u, v) ==
    IF u = FZero THEN FALSE
    ELSE IF v = FZero THEN TRUE
    ELSE \/ u.e > v.e
         \/ u.e = v.e /\ GreaterBig(u.m, v.m)

\* the double a decimal literal of k hundredths denotes (0.8 is 80)
FromDecimal(k) ==
    LET scaled == Trim(<<0, 0, 0, 0, 0, k>>)
        qr     == DivSmall(scaled, 100, 1)
    IN  RoundToDouble(Trim(qr[1]), 0 - 5 * LimbBits, qr[2] # 0)

----------------------------------------------------------------------------
(* Cypher values: a number v (a double) is <<v>>, null is <<>>. *)

Null == <<>>

Num(v) == <<v>>

\* WHERE similarity > 0.5
Threshold == FromDecimal(50)

\* list[i] in Cypher: 0-based, null when i is out of bounds; the elements
\* are the doubles the decimal literals denote
Elem(list, i) ==
    IF i >= 0 /\ i < Len(list) THEN Num(FromDecimal(list[i + 1])) ELSE Null

\* a * b in Cypher: null when either operand is null
Mul(a, b) == IF a = Null \/ b = Null THEN Null ELSE Num(FMul(a[1], b[1]))

\* a + b in Cypher: null when either operand is null
Add(a, b) == IF a = Null \/ b = Null THEN Null ELSE Num(FAdd(a[1], b[1]))

\* reduce(dot = 0.0, i IN range(0, size(embedding)-1) | dot + embedding[i] * $query[i]),
\* from index i on, with the accumulator dot
RECURSIVE Reduce(_, _, _, _)
Reduce(embedding, query, i, dot) ==
    IF i > Len(embedding) - 1
    THEN dot
    ELSE Reduce(embedding, query, i + 1,
                Add(dot, Mul(Elem(embedding, i), Elem(query, i))))

\* the reduce started at index 1 instead of 0
SimilarityMutant(embedding, query) == Reduce(embedding, query, 1, Num(FZero))

Similarity(embedding, query) == Reduce(embedding, query, 0, Num(FZero))

\* Similarity, tabulated over the vectors the specifications draw from
SimilarityOf == [embedding \in Vectors |-> [query \in Vectors |-> Similarity(embedding, query)]]

\* the similarity the WITH clause binds for every node, by position
Similarities(ns, query) ==
    [p \in 1..Len(ns) |-> SimilarityOf[ns[p].embedding][query]]

\* WHERE similarity > 0.5: a null comparison is not true, so the row is dropped
Exceeds(similarity) == similarity # Null /\ FGreater(similarity[1], Threshold)

\* the nodes (positions) the WHERE clause keeps
Matched(sims) == {p \in 1..Len(sims) : Exceeds(sims[p])}

\* ... with a confidence update added to the SET clause
SetActivationMutant(ns, sims) ==
    [p \in 1..Len(ns) |->
        IF p \in Matched(sims)
        THEN [ns[p] EXCEPT !.activation_count = @ + 1, !.confidence = @ + 1]
        ELSE ns[p]]

\* SET p.activation_count = p.activation_count + 1, for every row the WHERE keeps
SetActivation(ns, sims) ==
    [p \in 1..Len(ns) |->
        IF p \in Matched(sims)
        THEN [ns[p] EXCEPT !.activation_count = @ + 1]
        ELSE ns[p]]

\* ORDER BY similarity DESC: every ordering of the kept rows S by
\* non-increasing similarity (Cypher fixes no order among rows of equal
\* similarity)
RECURSIVE OrderBy(_, _)
OrderBy(sims, S) ==
    IF S = {}
    THEN {<<>>}
    ELSE UNION {
        {<<p>> \o t : t \in OrderBy(sims, S \ {p})} :
            p \in {m \in S : \A o \in S : ~FGreater(sims[o][1], sims[m][1])}}

\* the query without its LIMIT clause
LimitRowsMutant(ordered) == ordered

\* LIMIT 5
LimitRows(ordered) ==
    SubSeq(ordered, 1, IF Len(ordered) < Limit THEN Len(ordered) ELSE Limit)

\* RETURN p.bundle_id, similarity (p is the row's node, kept to tell apart
\* nodes that share a bundle_id)
Row(ns, sims, p) ==
    [p |-> p, bundle_id |-> ns[p].bundle_id, similarity |-> sims[p][1]]

\* the lists of rows the query can return
QueryResults(ns, sims) ==
    {[k \in 1..Len(LimitRows(o)) |-> Row(ns, sims, LimitRows(o)[k])] :
        o \in OrderBy(sims, Matched(sims))}

\* memories = [{'bundle_id': ..., 'similarity': ...} for r in result]
Memories(rs) ==
    [k \in 1..Len(rs) |->
        [bundle_id |-> rs[k].bundle_id, similarity |-> rs[k].similarity]]

----------------------------------------------------------------------------
(* store_perception *)

\* CREATE (p:Perception {bundle_id, embedding, activation_count: 0, confidence: 0.5})
CreateNode(ns, bundle_id, embeddings) ==
    Append(ns, [bundle_id |-> bundle_id, embedding |-> embeddings,
                activation_count |-> 0, confidence |-> Confidence])

\* the nodes MATCH (p:Perception {bundle_id: id}) finds, in creation order
RECURSIVE MatchFrom(_, _, _)
MatchFrom(ns, id, p) ==
    IF p > Len(ns) THEN <<>>
    ELSE IF ns[p].bundle_id = id
         THEN <<p>> \o MatchFrom(ns, id, p + 1)
         ELSE MatchFrom(ns, id, p + 1)

Match(ns, id) == MatchFrom(ns, id, 1)

\* MATCH p1, MATCH p2, CREATE (p1)-[:RELATES {weight}]->(p2): one edge for
\* every pair of the two matches' product
RelatesEdges(ns, bundle_id, rel) ==
    LET p1s == Match(ns, bundle_id)
        p2s == Match(ns, rel.target)
        n2  == Len(p2s)
    IN  [k \in 1..(Len(p1s) * n2) |->
            [src |-> p1s[((k - 1) \div n2) + 1],
             dst |-> p2s[((k - 1) % n2) + 1],
             weight |-> rel.weight]]

\* for rel in relations: session.run(...), from the k-th relation on
RECURSIVE CreateRelations(_, _, _, _, _)
CreateRelations(ns, rs, bundle_id, relations, k) ==
    IF k > Len(relations) THEN rs
    ELSE CreateRelations(ns, rs \o RelatesEdges(ns, bundle_id, relations[k]),
                         bundle_id, relations, k + 1)

StoreCall(bundle_id, embeddings, relations) ==
    [op |-> "store_perception", bundle_id |-> bundle_id,
     embedding |-> embeddings, relations |-> relations]

QueryCall(query_embedding) ==
    [op |-> "activate_perceptions", bundle_id |-> "",
     embedding |-> query_embedding, relations |-> <<>>]

NoCall == [op |-> "", bundle_id |-> "", embedding |-> <<>>, relations |-> <<>>]

\* PerceptionStore.store_perception(bundle_id, embeddings, relations)
store_perception(bundle_id, embeddings, relations) ==
    /\ nodes' = CreateNode(nodes, bundle_id, embeddings)
    /\ rels' = CreateRelations(nodes', rels, bundle_id, relations, 1)
    /\ call' = StoreCall(bundle_id, embeddings, relations)
    /\ rows' = <<>>
    /\ raised' = "none"

\* PerceptionStore.activate_perceptions(query_embedding)
activate_perceptions(query_embedding) ==
    /\ LET sims == Similarities(nodes, query_embedding)
       IN  /\ nodes' = SetActivation(nodes, sims)
           /\ rows' \in QueryResults(nodes, sims)
    /\ call' = QueryCall(query_embedding)
    /\ raised' = "none"
    /\ UNCHANGED rels

----------------------------------------------------------------------------
(* Spec: any sequence of store_perception and activate_perceptions calls   *)
(* on one store, with ids, embeddings of two lengths and relation lists    *)
(* drawn from small sets.                                                  *)

InitStore ==
    /\ nodes = <<>>
    /\ rels = <<>>
    /\ call = NoCall
    /\ rows = <<>>
    /\ raised = "none"

InitIdle ==
    /\ pc = "idle"
    /\ training_data = <<>>
    /\ test_queries = <<>>
    /\ idx = 0
    /\ results = <<>>
    /\ activated = <<>>
    /\ avg_accuracy = <<>>
    /\ closed = 0

Init == InitStore /\ InitIdle

\* the activations counted so far, over all nodes
RECURSIVE ActivationsFrom(_, _)
ActivationsFrom(ns, p) ==
    IF p > Len(ns) THEN 0 ELSE ns[p].activation_count + ActivationsFrom(ns, p + 1)

Activations(ns) == ActivationsFrom(ns, 1)

Store ==
    /\ Len(nodes) < MaxNodes
    /\ \E id \in Ids, e \in Embeddings, r \in RelationLists :
            store_perception(id, e, r)
    /\ UNCHANGED mainVars

Query ==
    /\ Activations(nodes) < MaxActivations
    /\ \E q \in Queries : activate_perceptions(q)
    /\ UNCHANGED mainVars

Next == Store \/ Query

Spec == Init /\ [][Next]_vars

----------------------------------------------------------------------------
(* SpecRank: a batch of perceptions with distinct ids, distinct embeddings *)
(* and no relations is stored, then queries are issued; the graph grows    *)
(* past LIMIT nodes.                                                       *)

RankStore ==
    /\ Len(nodes) < MaxRankNodes
    /\ call.op # "activate_perceptions"
    /\ \E j \in 1..Len(RankEmbeddings) :
            /\ \A p \in 1..Len(nodes) :
                    \E i \in 1..(j - 1) : RankEmbeddings[i] = nodes[p].embedding
            /\ store_perception(RankIds[Len(nodes) + 1], RankEmbeddings[j], <<>>)
    /\ UNCHANGED mainVars

RankQuery ==
    /\ \A p \in 1..Len(nodes) : nodes[p].activation_count < MaxRankQueries
    /\ \E q \in RankQueries : activate_perceptions(q)
    /\ UNCHANGED mainVars

NextRank == RankStore \/ RankQuery

SpecRank == Init /\ [][NextRank]_vars

----------------------------------------------------------------------------
(* PerceptionTrainer *)

\* 1.0, in hundredths
Perfect == 100

\* `x in list` of Python
InList(x, list) == \E k \in 1..Len(list) : list[k] = x

\* ... with any returned memory accepted, not the top one only
_calculate_accuracyMutant(memories, expected) ==
    IF \E k \in 1..Len(memories) : InList(memories[k].bundle_id, expected)
    THEN Perfect ELSE 0

\* PerceptionTrainer._calculate_accuracy(activated, expected)
_calculate_accuracy(memories, expected) ==
    IF memories = <<>>
    THEN 0
    ELSE IF InList(memories[1].bundle_id, expected) THEN Perfect ELSE 0

\* sum(results)
RECURSIVE SumFrom(_, _)
SumFrom(list, k) == IF k > Len(list) THEN 0 ELSE list[k] + SumFrom(list, k + 1)

Sum(list) == SumFrom(list, 1)

TestCall == [op |-> "test", bundle_id |-> "", embedding |-> <<>>, relations |-> <<>>]

----------------------------------------------------------------------------
(* SpecMain: main(), with the training batch and the test queries drawn    *)
(* from small sets of which the demo's own data is one, and with a store   *)
(* call that can raise (the database is unreachable) at any point.         *)

InitMain ==
    /\ nodes \in OldGraphs
    /\ rels = <<>>
    /\ call = NoCall
    /\ rows = <<>>
    /\ raised = "none"
    /\ pc = "reset"
    /\ training_data = <<>>
    /\ test_queries = <<>>
    /\ idx = 0
    /\ results = <<>>
    /\ activated = <<>>
    /\ avg_accuracy = <<>>
    /\ closed = 0

\* session.run("MATCH (n) DETACH DELETE n"), then the data is created and
\* trainer.train(training_data) is entered
MainReset ==
    /\ pc = "reset"
    /\ nodes' = <<>>
    /\ rels' = <<>>
    /\ training_data' \in TrainingBatches
    /\ test_queries' \in QueryLists
    /\ idx' = 0
    /\ pc' = "train"
    /\ UNCHANGED <<call, rows, raised, results, activated, avg_accuracy, closed>>

\* train: one iteration of `for i, data in enumerate(training_data)`
TrainItem ==
    /\ pc = "train"
    /\ idx < Len(training_data)
    /\ LET data == training_data[idx + 1]
       IN  store_perception(data.id, data.embedding, data.relations)
    /\ idx' = idx + 1
    /\ UNCHANGED <<pc, training_data, test_queries, results, activated,
                   avg_accuracy, closed>>

\* train returns and main calls trainer.test(test_queries): results = []
TrainReturn ==
    /\ pc = "train"
    /\ idx = Len(training_data)
    /\ pc' = "test"
    /\ idx' = 0
    /\ results' = <<>>
    /\ call' = TestCall
    /\ UNCHANGED <<nodes, rels, rows, raised, training_data, test_queries,
                   activated, avg_accuracy, closed>>

\* test: one iteration of `for query in test_queries`
TestQuery ==
    /\ pc = "test"
    /\ idx < Len(test_queries)
    /\ LET query == test_queries[idx + 1]
       IN  /\ activate_perceptions(query.embedding)
           /\ results' = Append(results,
                    _calculate_accuracy(Memories(rows'), query.expected))
           /\ activated' = Append(activated,
                    [query |-> query.embedding, memories |-> Memories(rows')])
    /\ idx' = idx + 1
    /\ UNCHANGED <<pc, training_data, test_queries, avg_accuracy, closed>>

\* test: avg_accuracy = sum(results) / len(results); return avg_accuracy
TestReturn ==
    /\ pc = "test"
    /\ idx = Len(test_queries)
    /\ IF Len(results) = 0
       THEN /\ raised' = "ZeroDivisionError"
            /\ pc' = "except"
            /\ UNCHANGED avg_accuracy
       ELSE /\ avg_accuracy' = <<Sum(results), Len(results)>>
            /\ pc' = "stats"
            /\ UNCHANGED raised
    /\ UNCHANGED <<nodes, rels, call, rows, training_data, test_queries, idx,
                   results, activated, closed>>

\* the statistics query and its report: avg() over no node is null, and
\* formatting None with :.2f raises TypeError
MainStats ==
    /\ pc = "stats"
    /\ IF Len(nodes) = 0
       THEN raised' = "TypeError" /\ pc' = "except"
       ELSE pc' = "finally" /\ UNCHANGED raised
    /\ UNCHANGED <<nodes, rels, call, rows, training_data, test_queries, idx,
                   results, activated, avg_accuracy, closed>>

\* a session.run of the reset, of a query or of the statistics raises
RunRaises ==
    /\ \/ pc \in {"reset", "stats"}
       \/ pc = "test" /\ idx < Len(test_queries)
    /\ raised' = "ServiceUnavailable"
    /\ pc' = "except"
    /\ UNCHANGED <<nodes, rels, call, rows, training_data, test_queries, idx,
                   results, activated, avg_accuracy, closed>>

\* store_perception raises in a session.run: in the CREATE of the node
\* (k = 0), or in the run of the k-th relation, after the node and the
\* relations before it were created
StoreRaises ==
    /\ pc = "train"
    /\ idx < Len(training_data)
    /\ LET data == training_data[idx + 1]
       IN  \E k \in 0..Len(data.relations) :
            IF k = 0
            THEN UNCHANGED <<nodes, rels>>
            ELSE /\ nodes' = CreateNode(nodes, data.id, data.embedding)
                 /\ rels' = CreateRelations(nodes', rels, data.id,
                                SubSeq(data.relations, 1, k - 1), 1)
    /\ raised' = "ServiceUnavailable"
    /\ pc' = "except"
    /\ UNCHANGED <<call, rows, training_data, test_queries, idx, results,
                   activated, avg_accuracy, closed>>

\* the handler skipped: the exception leaves main without the finally clause
MainExceptMutant ==
    /\ pc = "except"
    /\ pc' = "done"
    /\ UNCHANGED <<nodes, rels, call, rows, raised, training_data,
                   test_queries, idx, results, activated, avg_accuracy, closed>>

\* except Exception as e: the error is printed
MainExcept ==
    /\ pc = "except"
    /\ pc' = "finally"
    /\ UNCHANGED <<nodes, rels, call, rows, raised, training_data,
                   test_queries, idx, results, activated, avg_accuracy, closed>>

\* PerceptionStore.close(), called in main's finally clause
close ==
    /\ pc = "finally"
    /\ closed' = closed + 1
    /\ pc' = "done"
    /\ UNCHANGED <<nodes, rels, call, rows, raised, training_data,
                   test_queries, idx, results, activated, avg_accuracy>>

NextMain ==
    \/ MainReset
    \/ TrainItem
    \/ TrainReturn
    \/ TestQuery
    \/ TestReturn
    \/ MainStats
    \/ RunRaises
    \/ StoreRaises
    \/ MainExcept
    \/ close

\* main is one sequential thread: it takes its next step whenever it has one
SpecMain == InitMain /\ [][NextMain]_vars /\ WF_vars(NextMain)

----------------------------------------------------------------------------
(* Definitions the properties are stated with *)

\* the dot product of two vectors of one length, accumulated from 0.0 in
\* index order in double arithmetic
RECURSIVE DotFrom(_, _, _, _)
DotFrom(a, b, i, acc) ==
    IF i > Len(a) THEN acc
    ELSE DotFrom(a, b, i + 1,
                 FAdd(acc, FMul(FromDecimal(a[i]), FromDecimal(b[i]))))

DotSum(a, b) == DotFrom(a, b, 1, FZero)

\* DotSum, tabulated over the pairs of vectors of equal length
DotTable ==
    [a \in Vectors |-> [b \in {v \in Vectors : Len(v) = Len(a)} |-> DotSum(a, b)]]

Dot(a, b) == DotTable[a][b]

\* u >= v for doubles
FAtLeast(u, v) == ~FGreater(v, u)

\* the nodes the returned rows come from
Returned(rs) == {rs[k].p : k \in 1..Len(rs)}

IsQuery(c) == c.op = "activate_perceptions"

IsStore(c) == c.op = "store_perception"

----------------------------------------------------------------------------
\* C1: every perception is created with activation_count 0, and a query adds
\* exactly 1 to the counter of every perception it returns and nothing to the
\* counter of a perception it does not return, also when more than LIMIT
\* perceptions exceed the threshold.
C1_CountsReturned ==
    [][/\ IsStore(call') =>
            /\ Len(nodes') = Len(nodes) + 1
            /\ nodes'[Len(nodes')].activation_count = 0
            /\ \A p \in 1..Len(nodes) :
                    nodes'[p].activation_count = nodes[p].activation_count
       /\ IsQuery(call') =>
            /\ Len(nodes') = Len(nodes)
            /\ \A p \in 1..Len(nodes) :
                    nodes'[p].activation_count =
                        nodes[p].activation_count
                            + (IF p \in Returned(rows') THEN 1 ELSE 0)]_vars

\* C2: the rows a query returns (i) all have a dot product (as computed, in
\* double arithmetic) strictly above the threshold, (ii) are in non-increasing order of similarity, (iii) are at
\* most LIMIT, (iv) leave out no perception with a higher similarity than a
\* returned one, and are empty exactly when no perception exceeds the threshold.
C2_RankedResult ==
    IsQuery(call) =>
        LET q == call.embedding
            d(p) == Dot(nodes[p].embedding, q)
        IN  /\ \A k \in 1..Len(rows) :
                    /\ rows[k].p \in 1..Len(nodes)
                    /\ rows[k].bundle_id = nodes[rows[k].p].bundle_id
                    /\ rows[k].similarity = d(rows[k].p)
                    /\ FGreater(rows[k].similarity, Threshold)
            /\ \A k \in 1..(Len(rows) - 1) :
                    FAtLeast(rows[k].similarity, rows[k + 1].similarity)
            /\ Len(rows) <= Limit
            /\ \A p \in (1..Len(nodes)) \ Returned(rows) :
                    \A k \in 1..Len(rows) : FAtLeast(rows[k].similarity, d(p))
            /\ (rows = <<>>) <=>
                    (\A p \in 1..Len(nodes) : ~FGreater(d(p), Threshold))

\* C2's case: more than LIMIT perceptions exceed the threshold, the returned
\* rows have two different similarities, and a stored perception is left out
C2_Witness ==
    /\ IsQuery(call)
    /\ Cardinality({p \in 1..Len(nodes) :
            FGreater(Dot(nodes[p].embedding, call.embedding), Threshold)}) > Limit
    /\ Len(rows) = Limit
    /\ FGreater(rows[1].similarity, rows[Limit].similarity)
    /\ Returned(rows) # 1..Len(nodes)

----------------------------------------------------------------------------
\* C3: the graph never holds two perception nodes with the same id.
C3_UniqueId ==
    \A p, o \in 1..Len(nodes) :
        nodes[p].bundle_id = nodes[o].bundle_id => p = o

\* the relations of a list whose target is the id of a node of ns
Resolvable(ns, relations) ==
    LET exists(rel) == \E p \in 1..Len(ns) : ns[p].bundle_id = rel.target
    IN  SelectSeq(relations, exists)

\* C4: store_perception creates the new node and, for each relation in order,
\* exactly one edge from the new node to a perception with the target id and
\* with the given weight when such a perception exists, and no edge (and no
\* error) when it does not; both endpoints of every relation are existing
\* perceptions.
C4_OneEdgePerRelation ==
    [][IsStore(call') =>
        LET created == SubSeq(rels', Len(rels) + 1, Len(rels'))
            wanted  == Resolvable(nodes', call'.relations)
        IN  /\ Len(nodes') = Len(nodes) + 1
            /\ nodes'[Len(nodes')].bundle_id = call'.bundle_id
            /\ raised' = "none"
            /\ Len(created) = Len(wanted)
            /\ \A k \in 1..Len(created) :
                    /\ k <= Len(wanted)
                    /\ created[k].src = Len(nodes')
                    /\ created[k].dst \in 1..Len(nodes')
                    /\ nodes'[created[k].dst].bundle_id = wanted[k].target
                    /\ created[k].weight = wanted[k].weight
            /\ \A k \in 1..Len(rels') :
                    /\ rels'[k].src \in 1..Len(nodes')
                    /\ rels'[k].dst \in 1..Len(nodes')]_vars

\* C5: a query whose vector length differs from the embedding length of a
\* stored perception ends in a DimensionMismatch error.
C5_DimensionMismatch ==
    (/\ IsQuery(call)
     /\ \E p \in 1..Len(nodes) : Len(nodes[p].embedding) # Len(call.embedding))
        => raised = "DimensionMismatch"

\* C9 as stated: a query with the embedding e of a stored perception retains
\* that perception (its counter is incremented), whatever the magnitude of e.
C9_SelfMatchAlways ==
    [][IsQuery(call') =>
        \A p \in 1..Len(nodes) :
            nodes[p].embedding = call'.embedding =>
                nodes'[p].activation_count = nodes[p].activation_count + 1]_vars

\* C9 as amended: a query with the embedding e of a stored perception retains
\* that perception exactly when dot(e, e), as computed in double arithmetic,
\* strictly exceeds the threshold 0.5; a perception whose dot(e, e) is at
\* most 0.5 is not retained and its counter is left as it was.
C9_SelfMatchIffAboveThreshold ==
    [][IsQuery(call') =>
        \A p \in 1..Len(nodes) :
            nodes[p].embedding = call'.embedding =>
                /\ FGreater(Dot(call'.embedding, call'.embedding), Threshold) =>
                    nodes'[p].activation_count = nodes[p].activation_count + 1
                /\ ~FGreater(Dot(call'.embedding, call'.embedding), Threshold) =>
                    /\ nodes'[p].activation_count = nodes[p].activation_count
                    /\ p \notin Returned(rows')]_vars

\* C9's case: a perception was queried with its own embedding and retained,
\* beside a perception of small magnitude
C9_Witness ==
    /\ IsQuery(call)
    /\ \E p \in 1..Len(nodes) :
            /\ nodes[p].embedding = call.embedding
            /\ FGreater(Dot(call.embedding, call.embedding), Threshold)
            /\ p \in Returned(rows)
            /\ nodes[p].activation_count = 1
    /\ \E p \in 1..Len(nodes) :
            ~FGreater(Dot(nodes[p].embedding, nodes[p].embedding), Threshold)

\* C10: a query changes nothing but activation_count (the nodes, their ids,
\* embeddings and confidence 0.5, and the relations stay as they were), and
\* store_perception leaves every existing node and relation as it was.
C10_Frame ==
    [][/\ IsQuery(call') =>
            /\ Len(nodes') = Len(nodes)
            /\ \A p \in 1..Len(nodes) :
                    /\ nodes'[p].bundle_id = nodes[p].bundle_id
                    /\ nodes'[p].embedding = nodes[p].embedding
                    /\ nodes'[p].confidence = nodes[p].confidence
                    /\ nodes'[p].confidence = Confidence
            /\ rels' = rels
       /\ IsStore(call') =>
            /\ Len(nodes') = Len(nodes) + 1
            /\ \A p \in 1..Len(nodes) : nodes'[p] = nodes[p]
            /\ Len(rels') >= Len(rels)
            /\ SubSeq(rels', 1, Len(rels)) = rels]_vars

\* C10's case: a query has incremented a counter in a graph that holds a
\* relation created from an earlier node with the same id
C10_Witness ==
    /\ IsQuery(call)
    /\ \E p \in 1..Len(nodes) : nodes[p].activation_count > 0
    /\ \E k \in 1..Len(rels) : rels[k].src < rels[k].dst

----------------------------------------------------------------------------
\* trainer.test was called with an empty list and has ended
EmptyTestEnded == call.op = "test" /\ test_queries = <<>> /\ pc # "test"

\* trainer.test was called with a non-empty list, has issued its last query
\* and has ended
TestReturned == IsQuery(call) /\ idx = Len(test_queries) /\ pc # "test"

\* C6: test called with an empty list of queries ends in an EmptyInput error
\* and returns no number.
C6_EmptyInput ==
    EmptyTestEnded => raised = "EmptyInput" /\ avg_accuracy = <<>>

\* the queries of a list whose top returned memory is one of the expected ids
Hits(log, queries) ==
    {k \in 1..Len(queries) :
        /\ k <= Len(log)
        /\ log[k].memories # <<>>
        /\ InList(log[k].memories[1].bundle_id, queries[k].expected)}

\* C7: for a non-empty list of queries, test issues exactly one query per
\* query, in input order, and returns the number of queries whose rank-0
\* result id is one of the expected ids, divided by the number of queries.
C7_MeanTopOneAccuracy ==
    TestReturned =>
        /\ Len(activated) = Len(test_queries)
        /\ \A k \in 1..Len(activated) :
                activated[k].query = test_queries[k].embedding
        /\ avg_accuracy =
                <<Perfect * Cardinality(Hits(activated, test_queries)),
                  Len(test_queries)>>

\* C7's case: test has returned a mean over a query that scored 1.0, a query
\* that returned nothing and a query whose expected id was returned, but not
\* at rank 0
C7_Witness ==
    /\ TestReturned
    /\ \E k \in 1..Len(results) : results[k] = Perfect
    /\ \E k \in 1..Len(results) :
            results[k] = 0 /\ activated[k].memories = <<>>
    /\ \E k \in 1..Len(results) :
            /\ results[k] = 0
            /\ \E j \in 2..Len(activated[k].memories) :
                    InList(activated[k].memories[j].bundle_id,
                           test_queries[k].expected)

\* C8: on every run of main, close() is called exactly once, eventually,
\* whether the run completes or a step raises, and the graph is not touched
\* after it.
C8_ClosedExactlyOnce ==
    /\ [](closed <= 1)
    /\ [][closed = 1 => UNCHANGED <<nodes, rels, call, rows>>]_vars
    /\ <>[](closed = 1 /\ pc = "done")

\* C8's case: close() has run after a store call raised in the middle of the
\* training batch, with a node already stored
C8_Witness ==
    /\ closed = 1
    /\ pc = "done"
    /\ raised = "ServiceUnavailable"
    /\ Len(nodes) > 0
    /\ Len(nodes) < Len(training_data)

====
